---- MODULE Spec2Model ----
(***************************************************************************)
(* The tool-calling conversation loop of the business agent.               *)
(*                                                                         *)
(*   - chat_once  (agent_core.py): the Single-Dispatch turn controller.    *)
(*   - run_once   (react_agent.py): the Iterative Loop turn controller     *)
(*     around a two-node graph (agent_node / tool_node) with the           *)
(*     InvalidUpdateError retry and the canned apology.                    *)
(*                                                                         *)
(* The language model is an opaque service: each call answers with a       *)
(* response carrying zero or more capability requests (each with a fresh   *)
(* request identity) or fails.  A session runs one variant; its turns      *)
(* follow one another.                                                     *)
(***************************************************************************)
EXTENDS Integers, Sequences, FiniteSets, TLC

(* ------------------------------ bounds -------------------------------- *)

\* Turns a session runs.
MaxTurns == 2

\* Capability requests the model emits over a whole session; the model
\* answers without requests once they are used up, which also bounds the
\* reason/act rounds of one graph run.
MaxRequests == 2

\* Browser sessions of the chat application.
MaxSessions == 2

(* ----------------------------- messages ------------------------------- *)

\* "content": None of the source is the empty string here, as every reader of
\* a content in the source takes it through `or ""`.
Message(role, content, tool_calls, tool_call_id, name) ==
    [role |-> role, content |-> content, tool_calls |-> tool_calls,
     tool_call_id |-> tool_call_id, name |-> name]

SystemMessage(text) == Message("system", text, <<>>, 0, "")

HumanMessage(text) == Message("user", text, <<>>, 0, "")

\* An assistant message: plain (tool_calls = <<>>) or carrying requests.
AIMessage(content, tool_calls) == Message("assistant", content, tool_calls, 0, "")

ToolMessage(content, tool_call_id, name) ==
    Message("tool", content, <<>>, tool_call_id, name)

SYSTEM_PROMPT == "You are KolmoLabs' business assistant."

new_conversation == << SystemMessage(SYSTEM_PROMPT) >>

\* build_react_agent: the persona's system text, and the initial state.
system_text == "You are Friendly Advisor. Use ONLY the provided business documents."

init_state == << SystemMessage(system_text) >>

\* What the user types, turn after turn: the controllers never look into the
\* text, so each turn gets one text, unlike those of the turns around it.
Prompts == << "What is your mission?", "My email is a@b.com, I'm A",
              "What are your pricing tiers?" >>

UserTexts(t) == { Prompts[((t - 1) % Len(Prompts)) + 1] }

(* ------------------------ capability registry ------------------------- *)

\* Parameters of the two handlers: all of them, and those without a default.
Params(name) ==
    CASE name = "record_customer_interest" -> {"email", "name", "message"}
      [] name = "record_feedback" -> {"question"}
      [] OTHER -> {}

Required(name) ==
    CASE name = "record_customer_interest" -> {"email", "name"}
      [] name = "record_feedback" -> {"question"}
      [] OTHER -> {}

TOOL_REGISTRY == {"record_customer_interest", "record_feedback"}

\* func(**args): Python raises TypeError when a parameter without default is
\* missing or a keyword is not a parameter.
HandlerRaises(name, args) ==
    ~ (Required(name) \subseteq args /\ args \subseteq Params(name))

\* The confirmation string a handler returns.
HandlerResult(name) ==
    CASE name = "record_customer_interest" -> "Recorded lead."
      [] name = "record_feedback" -> "Logged the question for follow-up."
      [] OTHER -> ""

NotImplementedNotice(name) ==
    CASE name = "lookup_price" -> "Tool lookup_price not implemented."
      [] OTHER -> "Tool not implemented."

(* --------------------------- model service ---------------------------- *)

\* Raw argument strings of a request as the chat completions API delivers
\* them: a JSON object (written by its keys), nothing at all, or text that
\* is no JSON.
NotJson == "not json"

RawArguments == {"{question}", "{email,name}", "{email}", "", NotJson}

\* json.loads(raw_args) after `or "{}"`: the keys of the decoded mapping;
\* decodes is FALSE where json.loads raises.
JsonLoads(raw) ==
    CASE raw = "{question}" -> [decodes |-> TRUE, keys |-> {"question"}]
      [] raw = "{email,name}" -> [decodes |-> TRUE, keys |-> {"email", "name"}]
      [] raw = "{email}" -> [decodes |-> TRUE, keys |-> {"email"}]
      [] raw = "" -> [decodes |-> TRUE, keys |-> {}]
      [] OTHER -> [decodes |-> FALSE, keys |-> {}]

\* The (name, arguments) pairs the model asks for in the Single-Dispatch
\* variant.
ChatRequestKinds ==
    { <<"record_feedback", "{question}">>,
      <<"record_feedback", NotJson>>,
      <<"record_customer_interest", "{email,name}">>,
      <<"record_customer_interest", "{email}">>,
      <<"lookup_price", "">> }

ToolCall(id, kind) == [id |-> id, name |-> kind[1], arguments |-> kind[2]]

\* Sequences of n kinds.
KindSeqs(kinds, n) == [1..n -> kinds]

\* The requests of one response: n of them, with the fresh identities
\* first .. first + n - 1.
ToolCalls(first, ks) == [k \in 1..Len(ks) |-> ToolCall(first + k - 1, ks[k])]

\* Text of a response: None/empty or an answer.
Contents == {"", "Here is the answer."}

\* A response's message: [content, tool_calls].
Response(content, tool_calls) == [content |-> content, tool_calls |-> tool_calls]

NoResponse == Response("", <<>>)

\* complete(messages, tools?): the responses the service may give when `room`
\* request identities are left, the next fresh one being `first`.  Without a
\* tool catalogue the model cannot emit requests.
Complete(kinds, tools, first, room) ==
    { Response(c, <<>>) : c \in Contents }
    \cup
    IF tools
    THEN UNION { { Response("", ToolCalls(first, ks)) : ks \in KindSeqs(kinds, n) }
                 : n \in 1..room }
    ELSE {}

(* ------------------------------- state -------------------------------- *)

VARIABLES
    variant,          \* "single": chat_once turns; "react": run_once turns
    turn,             \* turns started so far
    pc,               \* position of the running turn
    nextId,           \* next fresh request identity of the model service
    invoked,          \* request identities handed to a handler, this turn
    final_text,       \* what the turn returned to its caller
    \* ---- chat_once
    history,          \* the caller's list, mutated in place
    before,           \* the conversation as it was when the turn began
    msg,              \* resp.choices[0].message of the first call
    i,                \* index of the for loop over msg.tool_calls
    tool_messages,    \* the local list of tool-result messages
    model_calls,      \* one entry per model call: was the catalogue passed?
    \* ---- run_once
    state,            \* state["messages"] the caller holds between turns
    baseline_messages,
    human_msg,
    error_logs,
    fallback_messages,
    messages,         \* the "messages" channel of the running graph
    invocations,      \* the message list of every graph.invoke of this turn
    tool_summaries,
    objects,          \* the list objects run_once works with, by reference
    names,            \* which object each name of run_once is bound to (0: none)
    \* ---- the application: sessions, their conversation objects, the logs
    files,            \* content of leads.csv and feedback.log, by path
    completed,        \* the _append_line calls that returned, in order
    heap,             \* the conversation lists alive in the process, by reference
    initial_value,    \* reference of the value the gr.State component was built with
    GRAPH_CACHE,      \* _GRAPH_CACHE: persona -> reference of init_messages (0: none)
    sessions          \* per session: position, reference of its state, pending call

chat_vars == << history, msg, i, tool_messages, model_calls >>

react_vars == << state, baseline_messages, human_msg, error_logs,
                 fallback_messages, messages, invocations, tool_summaries,
                 objects, names >>

app_vars == << files, completed, heap, initial_value, GRAPH_CACHE, sessions >>

vars == << variant, turn, pc, nextId, invoked, final_text, before, chat_vars,
           react_vars, app_vars >>

Room == MaxRequests - (nextId - 1)

(* ---------------------- texts and the log files ----------------------- *)

\* A text is a sequence of characters.  The characters that matter to the
\* handlers: the line break and the blank (whitespace), the double quote
\* chr(34) and the apostrophe chr(39) that replaces it.
Whitespace == {" ", "\n"}

\* str.rstrip(): the text without its trailing whitespace.
rstrip(text) ==
    LET keep == { k \in 1..Len(text) : text[k] \notin Whitespace }
    IN  IF keep = {} THEN <<>>
        ELSE SubSeq(text, 1, CHOOSE k \in keep : \A j \in keep : j <= k)

\* str.replace(old, new) for single characters.
replace(text, old, new) ==
    [k \in 1..Len(text) |-> IF text[k] = old THEN new ELSE text[k]]

LEADS_CSV == "leads.csv"

FEEDBACK_LOG == "feedback.log"

\* An argument mapping is a set of <<key, value>> pairs with distinct keys.
Keys(args) == { kv[1] : kv \in args }

Get(args, key) == (CHOOSE kv \in args : kv[1] = key)[2]

\* Line 31: rec = f'{email},"{name}","{message.replace(chr(34), chr(39))}"',
\* message defaulting to "".
LeadRecord(args) ==
    LET message == IF "message" \in Keys(args) THEN Get(args, "message") ELSE <<>>
    IN  Get(args, "email") \o << ",", "\"" >> \o Get(args, "name")
            \o << "\"", ",", "\"" >> \o replace(message, "\"", "'") \o << "\"" >>

\* The _append_line call a handler makes: lines 32 and 40.
HandlerLine(name, args) ==
    IF name = "record_customer_interest"
    THEN [path |-> LEADS_CSV, line |-> LeadRecord(args)]
    ELSE [path |-> FEEDBACK_LOG, line |-> Get(args, "question")]

\* Variant of OpenMode: the file is opened with "w".
OpenModeWrite == "w"

\* Line 23: path.open("a", ...).
OpenMode == "a"

\* What opening does to the file's content: "w" truncates, "a" keeps it.
Opened(content, mode) == IF mode = "a" THEN content ELSE <<>>

\* Line 24: the text f.write is given.
WrittenText(line) == rstrip(line) \o << "\n" >>

(* ------------------- sessions and their conversations ----------------- *)

\* PERSONAS of app_react.py; the first is the one the page loads with.
PERSONAS == {"Friendly Advisor", "Strict Expert"}

\* build_react_agent(persona): the initial message list.
persona_state(persona) ==
    IF persona = "Friendly Advisor" THEN init_state
    ELSE << SystemMessage("You are Strict Expert. Use ONLY the provided business documents.") >>

\* The heap is a sequence of lists, a reference is an index; <<>> marks a
\* slot whose list is no longer referenced (a conversation is never empty).
Free(h) == { ref \in 1..Len(h) : h[ref] = <<>> }

\* A new list object holding value: the heap with it, and its reference.  A
\* free slot is taken when there is one.
Allocate(h, value) ==
    IF Free(h) = {}
    THEN [heap |-> Append(h, value), ref |-> Len(h) + 1]
    ELSE LET ref == CHOOSE r \in Free(h) : \A q \in Free(h) : r <= q
         IN  [heap |-> [h EXCEPT ![ref] = value], ref |-> ref]

\* The last reference to a list is dropped.
Collect(h, ref) == [h EXCEPT ![ref] = <<>>]

\* list(xs): a new list with the same elements.
list(h, ref) == Allocate(h, h[ref])

\* The value a session's gr.State starts with: a deep copy of the value the
\* component was built with.
StateValue(h, ref) == Allocate(h, h[ref])

\* Variant of ClearedState: the clear callback hands out the list the State
\* component was built with.
ClearedStateShared(h) == [heap |-> h, ref |-> 1]

\* app.py, chat.chatbot.clear: lambda: new_conversation().
ClearedState(h) == Allocate(h, new_conversation)

\* app_react.py lines 32-46: the cache entry is made on the first call; the
\* caller gets a new list each time.
get_graph_and_state(h, cache, persona_key) ==
    IF cache[persona_key] # 0
    THEN LET ret == list(h, cache[persona_key])
         IN  [heap |-> ret.heap, cache |-> cache, ref |-> ret.ref]
    ELSE LET built == Allocate(h, persona_state(persona_key))
             init_messages == list(built.heap, built.ref)
             ret == list(init_messages.heap, init_messages.ref)
         IN  [heap |-> Collect(ret.heap, built.ref),
              cache |-> [cache EXCEPT ![persona_key] = init_messages.ref],
              ref |-> ret.ref]

\* app_react.py lines 70-74: a copy of what get_graph_and_state returned.
on_persona_change(h, cache, pkey) ==
    LET got == get_graph_and_state(h, cache, pkey)
        new_state == list(got.heap, got.ref)
    IN  [heap |-> Collect(new_state.heap, got.ref), cache |-> got.cache,
         ref |-> new_state.ref]

\* The pending handler call of a session, and a session that has not loaded
\* the page.
NoCall == [name |-> "", args |-> {}, id |-> 0]

Off == [pc |-> "off", ref |-> 0, call |-> NoCall, buffer |-> <<>>]

\* The objects alive when the application has been built: app.py holds the
\* list gr.State(new_conversation()) was given; app_react.py has run
\* state_box.value = on_persona_change("Friendly Advisor") (line 126).
Built(v) ==
    IF v = "single"
    THEN [heap |-> << new_conversation >>, cache |-> [persona \in PERSONAS |-> 0],
          ref |-> 1]
    ELSE on_persona_change(<<>>, [persona \in PERSONAS |-> 0], "Friendly Advisor")

\* The names of run_once that hold a list; arg is the list of the state the
\* caller passed in, returned the list of the state run_once hands back.
NoNames ==
    [arg |-> 0, state |-> 0, baseline_messages |-> 0, candidate_messages |-> 0,
     msgs |-> 0, fallback_messages |-> 0, returned |-> 0]

\* xs + ys: a new list object.
Plus(h, value) == Allocate(h, value)

\* react_agent.py lines 146-160 and 158: the caller's list is copied into
\* state, that into baseline_messages; candidate_messages is a new list and
\* graph.invoke gets a copy of it.
Entered(arg_value, human) ==
    LET arg == Allocate(<<>>, arg_value)
        st == list(arg.heap, arg.ref)
        baseline == list(st.heap, st.ref)
        candidate == Plus(baseline.heap, Append(baseline.heap[baseline.ref], human))
        given == list(candidate.heap, candidate.ref)
    IN  [objects |-> given.heap,
         names |-> [NoNames EXCEPT !.arg = arg.ref, !.state = st.ref,
                                   !.baseline_messages = baseline.ref,
                                   !.candidate_messages = candidate.ref,
                                   !.msgs = given.ref]]

\* Variant of ApologyTarget: the apology is appended to the list of the
\* state that was passed in.
ApologyTargetState(nm) == nm.arg

\* react_agent.py line 175: the list the apology is appended to.
ApologyTarget(nm) == nm.fallback_messages

\* Positions from which the caller starts the next turn.
Resting == {"idle", "returned", "raised"}

Init ==
    /\ variant \in {"single", "react"}
    /\ turn = 0
    /\ pc = "idle"
    /\ nextId = 1
    /\ invoked = <<>>
    /\ final_text = ""
    /\ history = new_conversation
    /\ before = new_conversation
    /\ msg = NoResponse
    /\ i = 1
    /\ tool_messages = <<>>
    /\ model_calls = <<>>
    /\ state = init_state
    /\ baseline_messages = <<>>
    /\ human_msg = HumanMessage("")
    /\ error_logs = <<>>
    /\ fallback_messages = <<>>
    /\ messages = <<>>
    /\ invocations = <<>>
    /\ tool_summaries = <<>>
    /\ objects = <<>>
    /\ names = NoNames
    /\ files = [path \in {LEADS_CSV, FEEDBACK_LOG} |-> <<>>]
    /\ completed = <<>>
    /\ heap = Built(variant).heap
    /\ initial_value = Built(variant).ref
    /\ GRAPH_CACHE = Built(variant).cache
    /\ sessions = [s \in 1..MaxSessions |-> Off]

(* ------------------------------ chat_once ----------------------------- *)

\* Variant of Dispatch: the registry is indexed, TOOL_REGISTRY[name], and an
\* unknown name raises KeyError.
DispatchIndexed(tc) ==
    IF tc.name \notin TOOL_REGISTRY
    THEN [called |-> FALSE, raises |-> TRUE, tool_result |-> ""]
    ELSE [called |-> TRUE,
          raises |-> HandlerRaises(tc.name, JsonLoads(tc.arguments).keys),
          tool_result |-> HandlerResult(tc.name)]

\* Lines 157-169 for one request: decode the arguments, look the handler up,
\* call it.  called: a handler was invoked; raises: the call raised;
\* tool_result: what the tool message will hold.
Dispatch(tc) ==
    LET decoded == JsonLoads(tc.arguments)
        args == IF decoded.decodes THEN decoded.keys ELSE {}
    IN  IF tc.name \notin TOOL_REGISTRY
        THEN [called |-> FALSE, raises |-> FALSE,
              tool_result |-> NotImplementedNotice(tc.name)]
        ELSE [called |-> TRUE, raises |-> HandlerRaises(tc.name, args),
              tool_result |-> HandlerResult(tc.name)]

\* Variant of LoopItem: the loop runs over reversed(msg.tool_calls).
LoopItemReversed(tool_calls, k) == tool_calls[Len(tool_calls) - k + 1]

\* Variant of LoopItem: every iteration takes the first request.
LoopItemFirst(tool_calls, k) == tool_calls[1]

\* Line 156: the request the for loop handles in its k-th iteration.
LoopItem(tool_calls, k) == tool_calls[k]

\* Lines 172-176: the assistant message recording one request.
RequestMessage(tc) == AIMessage("", << tc >>)

\* Variant of ResultMessage: the tool message takes the identity of the
\* request before this one.
ResultMessageStale(tc, tool_result) == ToolMessage(tool_result, tc.id - 1, tc.name)

\* Lines 177-182.
ResultMessage(tc, tool_result) == ToolMessage(tool_result, tc.id, tc.name)

\* Variant of ExtendHistory: history.append(tool_messages[-1]).
ExtendHistoryLast(h, tms) == Append(h, tms[Len(tms)])

\* Line 184: history.extend(tool_messages).
ExtendHistory(h, tms) == h \o tms

\* Line 140, then the request of lines 143-149 is about to be sent.
ChatOnce(user_text) ==
    /\ variant = "single"
    /\ pc \in Resting
    /\ turn < MaxTurns
    /\ turn' = turn + 1
    /\ before' = history
    /\ history' = Append(history, HumanMessage(user_text))
    /\ msg' = NoResponse
    /\ i' = 1
    /\ tool_messages' = <<>>
    /\ model_calls' = <<>>
    /\ invoked' = <<>>
    /\ final_text' = ""
    /\ pc' = "first_call"
    /\ UNCHANGED << app_vars, variant, nextId, react_vars >>

\* Lines 143-154: the first model call, with the catalogue.
FirstCall ==
    /\ pc = "first_call"
    /\ \E r \in Complete(ChatRequestKinds, TRUE, nextId, Room) :
          /\ msg' = r
          /\ nextId' = nextId + Len(r.tool_calls)
          /\ pc' = IF Len(r.tool_calls) > 0 THEN "tool_loop" ELSE "plain"
    /\ model_calls' = Append(model_calls, TRUE)
    /\ UNCHANGED react_vars
    /\ UNCHANGED << app_vars, variant, turn, invoked, final_text, history, before, i,
                    tool_messages >>

\* The model service fails: the exception leaves chat_once.
FirstCallFails ==
    /\ pc = "first_call"
    /\ model_calls' = Append(model_calls, TRUE)
    /\ pc' = "raised"
    /\ UNCHANGED react_vars
    /\ UNCHANGED << app_vars, variant, turn, nextId, invoked, final_text, history, before,
                    msg, i, tool_messages >>

\* Lines 196-199.
ReturnPlain ==
    /\ pc = "plain"
    /\ final_text' = msg.content
    /\ history' = Append(history, AIMessage(msg.content, <<>>))
    /\ pc' = "returned"
    /\ UNCHANGED react_vars
    /\ UNCHANGED << app_vars, variant, turn, nextId, invoked, before, msg, i,
                    tool_messages, model_calls >>

\* Lines 156-182: one iteration of the for loop.
LoopBody ==
    /\ pc = "tool_loop"
    /\ i <= Len(msg.tool_calls)
    /\ LET tc == LoopItem(msg.tool_calls, i)
           d == Dispatch(tc)
       IN  /\ invoked' = IF d.called THEN Append(invoked, tc.id) ELSE invoked
           /\ IF d.raises
              THEN /\ pc' = "raised"
                   /\ UNCHANGED << history, tool_messages, i >>
              ELSE /\ history' = Append(history, RequestMessage(tc))
                   /\ tool_messages' =
                          Append(tool_messages, ResultMessage(tc, d.tool_result))
                   /\ i' = i + 1
                   /\ pc' = "tool_loop"
    /\ UNCHANGED react_vars
    /\ UNCHANGED << app_vars, variant, turn, nextId, final_text, before, msg, model_calls >>

\* Line 184, and the second request of lines 187-191 is about to be sent.
AfterLoop ==
    /\ pc = "tool_loop"
    /\ i > Len(msg.tool_calls)
    /\ history' = ExtendHistory(history, tool_messages)
    /\ pc' = "follow_call"
    /\ UNCHANGED react_vars
    /\ UNCHANGED << app_vars, variant, turn, nextId, invoked, final_text, before, msg, i,
                    tool_messages, model_calls >>

\* Variant of FollowTools: the follow-up call passes tools=OPENAI_TOOLS too.
FollowToolsAuto == TRUE

\* Lines 187-191: is the catalogue passed to the follow-up call?
FollowTools == FALSE

\* Lines 187-194: the follow-up call; only its content is read.
FollowCall ==
    /\ pc = "follow_call"
    /\ \E r \in Complete(ChatRequestKinds, FollowTools, nextId, Room) :
          /\ nextId' = nextId + Len(r.tool_calls)
          /\ final_text' = r.content
          /\ history' = Append(history, AIMessage(r.content, <<>>))
    /\ model_calls' = Append(model_calls, FollowTools)
    /\ pc' = "returned"
    /\ UNCHANGED react_vars
    /\ UNCHANGED << app_vars, variant, turn, invoked, before, msg, i, tool_messages >>

FollowCallFails ==
    /\ pc = "follow_call"
    /\ model_calls' = Append(model_calls, FollowTools)
    /\ pc' = "raised"
    /\ UNCHANGED react_vars
    /\ UNCHANGED << app_vars, variant, turn, nextId, invoked, final_text, history, before,
                    msg, i, tool_messages >>

(* ------------------------------ run_once ------------------------------ *)

\* The tools bound to the graph, and the (name, args) pairs the model asks
\* for in the Iterative Loop variant; args are the parsed mapping, written
\* by its keys.
tools == {"record_customer_interest", "record_feedback"}

ReactRequestKinds ==
    { <<"record_feedback", "{question}">>,
      <<"record_feedback", "">>,
      <<"lookup_price", "">> }

\* ToolNode(tools, handle_tool_errors=True) on one request: a name that is no
\* tool and arguments the tool's schema rejects are answered by an error
\* message without running the handler.
RunTool(tc) ==
    LET args == JsonLoads(tc.arguments).keys
    IN  IF tc.name \notin tools
        THEN [called |-> FALSE, content |-> "Error: not a valid tool."]
        ELSE IF HandlerRaises(tc.name, args)
        THEN [called |-> FALSE, content |-> "Error: invalid arguments."]
        ELSE [called |-> TRUE, content |-> HandlerResult(tc.name)]

\* The act node's update: one tool message per request of the last message.
ToolNodeUpdate(last) ==
    [k \in 1..Len(last.tool_calls) |->
        ToolMessage(RunTool(last.tool_calls[k]).content,
                    last.tool_calls[k].id, last.tool_calls[k].name)]

\* The identities whose handler the act node runs, in order.
ToolNodeCalled(last) ==
    LET called == { k \in 1..Len(last.tool_calls) : RunTool(last.tool_calls[k]).called }
        F[k \in 0..Len(last.tool_calls)] ==
            IF k = 0 THEN <<>>
            ELSE IF k \in called THEN Append(F[k - 1], last.tool_calls[k].id)
            ELSE F[k - 1]
    IN  F[Len(last.tool_calls)]

\* Variant of router: the conditional edge leads to the tools node whatever
\* the last message is.
routerTools(ms) == "tools"

\* Lines 113-118.
router(ms) ==
    LET last == ms[Len(ms)]
    IN  IF last.role = "assistant" /\ Len(last.tool_calls) > 0 THEN "tools" ELSE "END"

\* Variant of FallbackMessages: baseline_messages[-1:] instead of [:1].
FallbackMessagesLast(baseline, human) ==
    SubSeq(baseline, Len(baseline), Len(baseline)) \o << human >>

\* Variant of FallbackMessages: the retry keeps the whole baseline.
FallbackMessagesWhole(baseline, human) == Append(baseline, human)

\* Line 166.
FallbackMessages(baseline, human) ==
    SubSeq(baseline, 1, 1) \o << human >>

safe_reply == "I'm sorry, something went wrong on my side while processing that."

\* Variant of WithApology: the apology is returned but not appended.
WithoutApology(fallback) == fallback

\* Line 175.
WithApology(fallback) == Append(fallback, AIMessage(safe_reply, <<>>))

\* Variant of FinalText: the scan is not reversed and stops at the first
\* assistant message.
FinalTextFirst(result_messages) ==
    LET ais == { k \in 1..Len(result_messages) : result_messages[k].role = "assistant" }
    IN  IF ais = {} THEN ""
        ELSE result_messages[CHOOSE k \in ais : \A j \in ais : k <= j].content

\* Lines 187-191: the content of the last assistant message, "" without one.
FinalText(result_messages) ==
    LET ais == { k \in 1..Len(result_messages) : result_messages[k].role = "assistant" }
    IN  IF ais = {} THEN ""
        ELSE result_messages[CHOOSE k \in ais : \A j \in ais : j <= k].content

\* Variant of DeltaMessages: the delta starts after the user message and the
\* first response, result_messages[baseline_count + 2:].
DeltaMessagesLate(result_messages, baseline_count) ==
    SubSeq(result_messages, baseline_count + 3, Len(result_messages))

\* Line 194: result_messages[baseline_count:].
DeltaMessages(result_messages, baseline_count) ==
    SubSeq(result_messages, baseline_count + 1, Len(result_messages))

\* entry["result"] of a request no tool message has answered.
None == "<None>"

\* Lines 197-214.
CaptureToolCall(call) == [name |-> call.name, args |-> call.arguments, result |-> None]

\* Lines 221-225: the most recent unresolved entry of that name takes the
\* content.
ResolveEntry(tool_logs, m) ==
    LET open == { e \in 1..Len(tool_logs) :
                    tool_logs[e].result = None /\ tool_logs[e].name = m.name }
    IN  IF open = {} THEN tool_logs
        ELSE LET e == CHOOSE x \in open : \A y \in open : y <= x
             IN  [tool_logs EXCEPT ![e].result = m.content]

\* Lines 216-225, for one message of the delta.
ScanMessage(tool_logs, m) ==
    IF m.role = "assistant" /\ Len(m.tool_calls) > 0
    THEN tool_logs \o [j \in 1..Len(m.tool_calls) |-> CaptureToolCall(m.tool_calls[j])]
    ELSE IF m.role = "tool"
    THEN ResolveEntry(tool_logs, m)
    ELSE tool_logs

\* Lines 216-225: the loop over delta_messages from its k-th message on.  The
\* list built so far is bound by a quantifier so that it is evaluated once.
RECURSIVE ScanDelta(_, _, _)
ScanDelta(delta, k, tool_logs) ==
    IF k > Len(delta) THEN tool_logs
    ELSE CHOOSE logs \in { ScanDelta(delta, k + 1, next) :
                              next \in { ScanMessage(tool_logs, delta[k]) } } : TRUE

\* Lines 227-232: "name(args)" and, with a result, " -> result".
Summary(entry) ==
    [name |-> entry.name, args |-> entry.args,
     result |-> IF entry.result \in {None, ""} THEN "" ELSE entry.result]

ToolSummaries(result_messages, baseline_count) ==
    LET tool_logs == ScanDelta(DeltaMessages(result_messages, baseline_count), 1, <<>>)
    IN  [e \in 1..Len(tool_logs) |-> Summary(tool_logs[e])]

\* Lines 146-163: copy the state, build the candidate list and invoke the
\* graph on it; START leads to the agent node.
RunOnce(user_text) ==
    /\ variant = "react"
    /\ pc \in Resting
    /\ turn < MaxTurns
    /\ turn' = turn + 1
    /\ before' = state
    /\ baseline_messages' = state
    /\ human_msg' = HumanMessage(user_text)
    /\ error_logs' = <<>>
    /\ fallback_messages' = <<>>
    /\ tool_summaries' = <<>>
    /\ invoked' = <<>>
    /\ final_text' = ""
    /\ LET candidate_messages == Append(state, HumanMessage(user_text))
       IN  /\ messages' = candidate_messages
           /\ invocations' = << candidate_messages >>
    /\ objects' = Entered(state, HumanMessage(user_text)).objects
    /\ names' = Entered(state, HumanMessage(user_text)).names
    /\ pc' = "agent"
    /\ UNCHANGED << app_vars, variant, nextId, state, chat_vars >>

\* Lines 105-108 and the router: the reason step.
AgentNode ==
    /\ pc = "agent"
    /\ \E r \in Complete(ReactRequestKinds, TRUE, nextId, Room) :
          /\ nextId' = nextId + Len(r.tool_calls)
          /\ messages' = Append(messages, AIMessage(r.content, r.tool_calls))
          /\ pc' = IF router(messages') = "tools" THEN "tools" ELSE "end"
    /\ UNCHANGED << app_vars, variant, turn, invoked, final_text, before, chat_vars, state,
                    baseline_messages, human_msg, error_logs, fallback_messages,
                    invocations, tool_summaries, objects, names >>

\* llm.invoke fails: the exception is no InvalidUpdateError and leaves
\* graph.invoke and run_once.
AgentNodeFails ==
    /\ pc = "agent"
    /\ pc' = "raised"
    /\ UNCHANGED << app_vars, variant, turn, nextId, invoked, final_text, before, chat_vars,
                    react_vars >>

\* The engine rejects the reason step's update with InvalidUpdateError: the
\* response is lost with it.
AgentNodeInvalidUpdate ==
    /\ pc = "agent"
    /\ pc' = "invalid_update"
    /\ UNCHANGED << app_vars, variant, turn, nextId, invoked, final_text, before, chat_vars,
                    react_vars >>

\* Line 110: the act step; its edge leads back to the agent node.
ToolNode ==
    /\ pc = "tools"
    /\ LET last == messages[Len(messages)]
       IN  /\ invoked' = invoked \o ToolNodeCalled(last)
           /\ messages' = messages \o ToolNodeUpdate(last)
    /\ pc' = "agent"
    /\ UNCHANGED << app_vars, variant, turn, nextId, final_text, before, chat_vars, state,
                    baseline_messages, human_msg, error_logs, fallback_messages,
                    invocations, tool_summaries, objects, names >>

\* The handlers ran, and the engine rejects the act step's update.
ToolNodeInvalidUpdate ==
    /\ pc = "tools"
    /\ invoked' = invoked \o ToolNodeCalled(messages[Len(messages)])
    /\ pc' = "invalid_update"
    /\ UNCHANGED << app_vars, variant, turn, nextId, final_text, before, chat_vars,
                    react_vars >>

\* Lines 164-168: the primary invocation failed; invoke once more.
ExceptPrimary ==
    /\ pc = "invalid_update"
    /\ Len(invocations) = 1
    /\ error_logs' = Append(error_logs, "InvalidUpdateError primary invoke")
    /\ fallback_messages' = FallbackMessages(baseline_messages, human_msg)
    /\ messages' = fallback_messages'
    /\ invocations' = Append(invocations, fallback_messages')
    /\ LET fallback == Plus(objects, FallbackMessages(
                                         objects[names.baseline_messages], human_msg))
           given == list(fallback.heap, fallback.ref)
       IN  /\ objects' = given.heap
           /\ names' = [names EXCEPT !.fallback_messages = fallback.ref,
                                     !.msgs = given.ref]
    /\ pc' = "agent"
    /\ UNCHANGED << app_vars, variant, turn, nextId, invoked, final_text, before, chat_vars,
                    state, baseline_messages, human_msg, tool_summaries >>

\* Lines 169-176: the retry failed too; the canned apology is returned.
ExceptFallback ==
    /\ pc = "invalid_update"
    /\ Len(invocations) = 2
    /\ error_logs' = Append(error_logs, "InvalidUpdateError fallback invoke")
    /\ fallback_messages' = WithApology(fallback_messages)
    /\ state' = fallback_messages'
    /\ final_text' = safe_reply
    /\ tool_summaries' = <<>>
    /\ objects' = [objects EXCEPT ![ApologyTarget(names)] = WithApology(@)]
    /\ names' = [names EXCEPT !.returned = names.fallback_messages]
    /\ pc' = "returned"
    /\ UNCHANGED << app_vars, variant, turn, nextId, invoked, before, chat_vars,
                    baseline_messages, human_msg, messages, invocations >>

\* Lines 185-234: graph.invoke returned; final text and tool summaries.
Finish ==
    /\ pc = "end"
    /\ state' = messages
    /\ final_text' = FinalText(messages)
    /\ tool_summaries' = ToolSummaries(messages, Len(baseline_messages))
    /\ LET result_state == Allocate(objects, messages)
       IN  /\ objects' = result_state.heap
           /\ names' = [names EXCEPT !.returned = result_state.ref]
    /\ pc' = "returned"
    /\ UNCHANGED << app_vars, variant, turn, nextId, invoked, before, chat_vars,
                    baseline_messages, human_msg, error_logs, fallback_messages,
                    messages, invocations >>

Next ==
    \/ \E u \in UserTexts(turn + 1) : ChatOnce(u)
    \/ FirstCall
    \/ FirstCallFails
    \/ ReturnPlain
    \/ LoopBody
    \/ AfterLoop
    \/ FollowCall
    \/ FollowCallFails
    \/ \E u \in UserTexts(turn + 1) : RunOnce(u)
    \/ AgentNode
    \/ AgentNodeFails
    \/ AgentNodeInvalidUpdate
    \/ ToolNode
    \/ ToolNodeInvalidUpdate
    \/ ExceptPrimary
    \/ ExceptFallback
    \/ Finish

Spec == Init /\ [][Next]_vars

\* The turn's steps run to completion once begun: calls are synchronous and
\* nothing cancels a turn.
TurnStep ==
    \/ FirstCall \/ FirstCallFails \/ ReturnPlain \/ LoopBody \/ AfterLoop
    \/ FollowCall \/ FollowCallFails
    \/ AgentNode \/ AgentNodeFails \/ AgentNodeInvalidUpdate
    \/ ToolNode \/ ToolNodeInvalidUpdate
    \/ ExceptPrimary \/ ExceptFallback \/ Finish

LiveSpec == Spec /\ WF_vars(TurnStep)

(* --------------------------- the application -------------------------- *)

\* Sessions of one process run their turns side by side; each step below is
\* a step of one session.  The turn is followed as far as it touches what
\* sessions could share: the conversation objects and the log files.

Sessions == 1..MaxSessions

\* What the controllers' variables do while the application runs.
turn_locals == << pc, invoked, final_text, before, chat_vars, react_vars >>

\* MaxTurns bounds what the users do altogether: messages submitted, chats
\* cleared, personas changed.

\* What a user submits: a question, or blanks only.
AppMessages == {"What is your mission?", " "}

\* str.strip() of a submitted message.
strip(message) == IF message = " " THEN "" ELSE message

\* Argument values the model fills in: a question (with a trailing blank,
\* with a line break inside), a lead with a note that holds double quotes.
Questions == { << "q", " " >>, << "q", "\n", "r" >> }

Notes == { << "\"", "m", "\"" >> }

\* The handler calls the model asks for: complete mappings, and the empty
\* mapping.
AppCalls ==
    { [name |-> "record_feedback", args |-> { << "question", q >> }] : q \in Questions }
    \cup { [name |-> "record_customer_interest",
            args |-> { << "email", << "e" >> >>, << "name", << "n" >> >>,
                       << "message", m >> }] : m \in Notes }
    \cup { [name |-> "record_feedback", args |-> {}] }

\* The request as the conversation records it.
CallRequest(call) == ToolCall(call.id, << call.name, call.args >>)

\* A browser session opens the page; sessions are numbered in the order
\* they do.
Load(s) ==
    /\ sessions[s].pc = "off"
    /\ \A earlier \in 1..(s - 1) : sessions[earlier].pc # "off"
    /\ LET new == StateValue(heap, initial_value)
       IN  /\ heap' = new.heap
           /\ sessions' = [sessions EXCEPT ![s].pc = "idle", ![s].ref = new.ref]
    /\ UNCHANGED << variant, turn, nextId, turn_locals, files, completed,
                    initial_value, GRAPH_CACHE >>

\* app.py lines 142-147: the chat is cleared.
Clear(s) ==
    /\ variant = "single"
    /\ sessions[s].pc = "idle"
    /\ turn < MaxTurns
    /\ turn' = turn + 1
    /\ LET new == ClearedState(heap)
       IN  /\ heap' = Collect(new.heap, sessions[s].ref)
           /\ sessions' = [sessions EXCEPT ![s].ref = new.ref]
    /\ UNCHANGED << variant, nextId, turn_locals, files, completed,
                    initial_value, GRAPH_CACHE >>

\* app_react.py lines 70-80: the persona dropdown changes.
PersonaChange(s, pkey) ==
    /\ variant = "react"
    /\ sessions[s].pc = "idle"
    /\ turn < MaxTurns
    /\ turn' = turn + 1
    /\ LET new == on_persona_change(heap, GRAPH_CACHE, pkey)
       IN  /\ heap' = Collect(new.heap, sessions[s].ref)
           /\ GRAPH_CACHE' = new.cache
           /\ sessions' = [sessions EXCEPT ![s].ref = new.ref]
    /\ UNCHANGED << variant, nextId, turn_locals, files, completed,
                    initial_value >>

\* app.py lines 102-106 and agent_core.py line 140: a blank message returns
\* at once; otherwise chat_once appends the user message to the list it was
\* given and calls the model.
AppRespond(s, message) ==
    /\ variant = "single"
    /\ sessions[s].pc = "idle"
    /\ turn < MaxTurns
    /\ turn' = turn + 1
    /\ IF strip(message) = ""
       THEN UNCHANGED << heap, sessions >>
       ELSE /\ heap' = [heap EXCEPT ![sessions[s].ref] =
                                       Append(@, HumanMessage(message))]
            /\ sessions' = [sessions EXCEPT ![s].pc = "model"]
    /\ UNCHANGED << variant, nextId, turn_locals, files, completed,
                    initial_value, GRAPH_CACHE >>

\* app_react.py lines 90-96 and react_agent.py lines 146-163: run_once works
\* on copies of the messages it was given.
ReactRespond(s, message) ==
    /\ variant = "react"
    /\ sessions[s].pc = "idle"
    /\ turn < MaxTurns
    /\ turn' = turn + 1
    /\ sessions' = [sessions EXCEPT ![s].pc = "model"]
    /\ UNCHANGED << variant, nextId, turn_locals, files, completed, heap,
                    initial_value, GRAPH_CACHE >>

\* The model answers in plain text.  chat_once appends the answer and
\* returns; run_once returns four values, which respond unpacks into three
\* names (app_react.py line 96): ValueError, the session's state stays.
SessionAnswer(s) ==
    /\ sessions[s].pc = "model"
    /\ \E c \in Contents :
          heap' = IF variant = "single"
                  THEN [heap EXCEPT ![sessions[s].ref] = Append(@, AIMessage(c, <<>>))]
                  ELSE heap
    /\ sessions' = [sessions EXCEPT ![s].pc = "idle"]
    /\ UNCHANGED << variant, turn, nextId, turn_locals, files, completed,
                    initial_value, GRAPH_CACHE >>

\* The model asks for a handler.
SessionRequest(s) ==
    /\ sessions[s].pc = "model"
    /\ Room > 0
    /\ \E call \in AppCalls :
          sessions' = [sessions EXCEPT
                          ![s].pc = "call",
                          ![s].call = [name |-> call.name, args |-> call.args,
                                       id |-> nextId]]
    /\ nextId' = nextId + 1
    /\ UNCHANGED << variant, turn, turn_locals, files, completed, heap,
                    initial_value, GRAPH_CACHE >>

\* func(**args), up to path.open("a") of _append_line (lines 22-23).  A call
\* that raises leaves chat_once and respond; the act node of the graph turns
\* it into an error message and the run goes on.
HandlerCall(s) ==
    /\ sessions[s].pc = "call"
    /\ LET call == sessions[s].call
       IN  IF HandlerRaises(call.name, Keys(call.args))
           THEN /\ sessions' = [sessions EXCEPT
                                   ![s].pc = IF variant = "single" THEN "idle"
                                                                  ELSE "follow",
                                   ![s].call = IF variant = "single" THEN NoCall
                                                                    ELSE @]
                /\ UNCHANGED files
           ELSE /\ files' = [files EXCEPT
                                ![HandlerLine(call.name, call.args).path] =
                                    Opened(@, OpenMode)]
                /\ sessions' = [sessions EXCEPT ![s].pc = "opened",
                                                ![s].buffer = <<>>]
    /\ UNCHANGED << variant, turn, nextId, turn_locals, completed, heap,
                    initial_value, GRAPH_CACHE >>

\* Line 24: f.write(line.rstrip() + "\n") fills the handle's buffer.
Write(s) ==
    /\ sessions[s].pc = "opened"
    /\ LET call == sessions[s].call
       IN  sessions' = [sessions EXCEPT
                           ![s].pc = "written",
                           ![s].buffer = @ \o WrittenText(
                                           HandlerLine(call.name, call.args).line)]
    /\ UNCHANGED << variant, turn, nextId, turn_locals, files, completed, heap,
                    initial_value, GRAPH_CACHE >>

\* The with block ends: the buffer goes out in one write, which the append
\* mode places at the end the file has then; the handler returns.
Close(s) ==
    /\ sessions[s].pc = "written"
    /\ LET call == sessions[s].call
           appended == HandlerLine(call.name, call.args)
       IN  /\ files' = [files EXCEPT ![appended.path] = @ \o sessions[s].buffer]
           /\ completed' = Append(completed, appended)
    /\ sessions' = [sessions EXCEPT ![s].pc = "follow", ![s].buffer = <<>>]
    /\ UNCHANGED << variant, turn, nextId, turn_locals, heap, initial_value,
                    GRAPH_CACHE >>

\* agent_core.py lines 172-194: the request message, the tool message and
\* the follow-up answer are appended to the session's list.  In
\* app_react.py the unpacking of run_once's result raises.
SessionFollow(s) ==
    /\ sessions[s].pc = "follow"
    /\ \E c \in Contents :
          heap' = IF variant = "single"
                  THEN LET tc == CallRequest(sessions[s].call)
                           recorded == Append(heap[sessions[s].ref], RequestMessage(tc))
                           extended == ExtendHistory(recorded,
                                           << ResultMessage(tc, HandlerResult(tc.name)) >>)
                       IN  [heap EXCEPT ![sessions[s].ref] =
                                           Append(extended, AIMessage(c, <<>>))]
                  ELSE heap
    /\ sessions' = [sessions EXCEPT ![s].pc = "idle", ![s].call = NoCall]
    /\ UNCHANGED << variant, turn, nextId, turn_locals, files, completed,
                    initial_value, GRAPH_CACHE >>

AppNext ==
    \/ \E s \in Sessions : Load(s)
    \/ \E s \in Sessions : Clear(s)
    \/ \E s \in Sessions, pkey \in PERSONAS : PersonaChange(s, pkey)
    \/ \E s \in Sessions, message \in AppMessages : AppRespond(s, message)
    \/ \E s \in Sessions, message \in AppMessages : ReactRespond(s, message)
    \/ \E s \in Sessions : SessionAnswer(s)
    \/ \E s \in Sessions : SessionRequest(s)
    \/ \E s \in Sessions : HandlerCall(s)
    \/ \E s \in Sessions : Write(s)
    \/ \E s \in Sessions : Close(s)
    \/ \E s \in Sessions : SessionFollow(s)

AppSpec == Init /\ [][AppNext]_vars

(* ------------------------------ properties ---------------------------- *)

IsPrefix(s, t) == Len(s) <= Len(t) /\ SubSeq(t, 1, Len(s)) = s

Last(s) == s[Len(s)]

\* The request identities an assistant message carries.
RequestIds(m) == { m.tool_calls[k].id : k \in 1..Len(m.tool_calls) }

\* The conversation the running variant's caller holds.
Conversation == IF variant = "single" THEN history ELSE state

\* Every tool-result message directly follows an assistant message that
\* carries its request identity.
Paired(conv) ==
    \A k \in 1..Len(conv) :
        conv[k].role = "tool" =>
            /\ k > 1
            /\ conv[k - 1].role = "assistant"
            /\ conv[k].tool_call_id \in RequestIds(conv[k - 1])

\* C1: in the conversation a chat_once turn returns, the message directly
\* before each tool-result message is an assistant message whose capability
\* requests include that tool-result's request identity.
C1_PairingInvariant ==
    (variant = "single" /\ pc = "returned") => Paired(history)

\* C2: within one turn of either variant, no request identity is handed to a
\* capability handler more than once, the retry path of run_once included.
C2_AtMostOnceDispatch ==
    \A a, b \in 1..Len(invoked) : a # b => invoked[a] # invoked[b]

\* A run_once turn that took the retry path and ran two handlers or more.
C2_Witness ==
    /\ variant = "react"
    /\ pc = "returned"
    /\ Len(invocations) = 2
    /\ Len(invoked) >= 2

\* C3: a chat_once turn issues at most two model calls; a turn that returns
\* has issued exactly one when the first response carried no capability
\* request and exactly two otherwise; the first call passes the tool catalogue,
\* the second does not, and only requests of the first response are ever
\* dispatched.
C3_TwoModelCalls ==
    variant = "single" =>
        /\ Len(model_calls) <= 2
        /\ Len(model_calls) >= 1 => model_calls[1]
        /\ Len(model_calls) = 2 => ~ model_calls[2] /\ Len(msg.tool_calls) > 0
        /\ pc = "returned" =>
              Len(model_calls) = IF Len(msg.tool_calls) = 0 THEN 1 ELSE 2
        /\ \A k \in 1..Len(invoked) : invoked[k] \in RequestIds(msg)

\* A returned turn whose first response carried two requests or more.
C3_Witness ==
    /\ variant = "single"
    /\ pc = "returned"
    /\ Len(msg.tool_calls) >= 2
    /\ Len(model_calls) = 2

\* The graph run of a run_once turn is under way.
GraphRunning == variant = "react" /\ pc \in {"agent", "tools", "end", "invalid_update"}

\* The graph run ended at a response without capability requests that holds
\* plain text.
AnsweredInPlainText ==
    /\ Len(error_logs) < 2
    /\ Len(messages) > 0
    /\ Last(messages).role = "assistant"
    /\ Last(messages).tool_calls = <<>>
    /\ Last(messages).content # ""

\* The turn is over and the model never answered in plain text: its last
\* response was empty, or the call to it failed.
NoPlainText ==
    \/ pc = "raised"
    \/ /\ pc = "returned"
       /\ Len(error_logs) < 2
       /\ ~ AnsweredInPlainText

Unknown(tc) == tc.name \notin TOOL_REGISTRY

\* The for loop of chat_once is at an unknown-tool request.
AtUnknownRequest ==
    /\ variant = "single"
    /\ pc = "tool_loop"
    /\ i <= Len(msg.tool_calls)
    /\ Unknown(msg.tool_calls[i])

\* C5: a request of chat_once that names a tool outside the registry reaches
\* no handler; handling it never raises: it yields a tool-result message with
\* the "not implemented" notice and the loop goes on to the next request; and
\* a turn that returns holds that tool-result message in its conversation.
C5_UnknownTool ==
    /\ [](variant = "single" =>
            /\ \A k \in 1..Len(msg.tool_calls) :
                  Unknown(msg.tool_calls[k]) => msg.tool_calls[k].id \notin
                      { invoked[j] : j \in 1..Len(invoked) }
            /\ pc = "returned" =>
                  \A k \in 1..Len(msg.tool_calls) :
                      Unknown(msg.tool_calls[k]) =>
                          \E h \in 1..Len(history) :
                              history[h] = ToolMessage(
                                  NotImplementedNotice(msg.tool_calls[k].name),
                                  msg.tool_calls[k].id, msg.tool_calls[k].name))
    /\ [][AtUnknownRequest =>
            /\ pc' = "tool_loop"
            /\ i' = i + 1
            /\ invoked' = invoked
            /\ tool_messages' = Append(tool_messages,
                   ToolMessage(NotImplementedNotice(msg.tool_calls[i].name),
                               msg.tool_calls[i].id, msg.tool_calls[i].name))]_vars

\* A returned turn whose first response named an unknown tool and then a
\* registered one: the notice is in the conversation, the handler of the
\* other request ran, and a final answer came back.
C5_Witness ==
    /\ variant = "single"
    /\ pc = "returned"
    /\ Len(msg.tool_calls) >= 2
    /\ Unknown(msg.tool_calls[1])
    /\ ~ Unknown(msg.tool_calls[2])
    /\ invoked = << msg.tool_calls[2].id >>
    /\ final_text # ""
    /\ \E h \in 1..Len(history) :
          history[h].role = "tool" /\ history[h].tool_call_id = msg.tool_calls[1].id
              /\ history[h].content = "Tool lookup_price not implemented."

\* C6: when the argument string of a request for a registered tool cannot be
\* decoded, chat_once does not fail at that request.
C6_DecodeFailureRecovered ==
    ~ /\ variant = "single"
      /\ pc = "raised"
      /\ i <= Len(msg.tool_calls)
      /\ msg.tool_calls[i].name \in TOOL_REGISTRY
      /\ ~ JsonLoads(msg.tool_calls[i].arguments).decodes

\* C7: a run_once turn invokes the graph at most twice; the second invocation
\* happens exactly when the primary one failed with a state-merge conflict,
\* and its message list is the conversation's system message followed by the
\* new user message.
C7_RetryOnReducedList ==
    variant = "react" =>
        /\ Len(invocations) <= 2
        /\ (Len(error_logs) >= 1) <=> (Len(invocations) = 2)
        /\ Len(invocations) = 2 =>
              /\ before[1].role = "system"
              /\ invocations[2] = << before[1], human_msg >>

\* A retry in a turn whose conversation already held an earlier turn.
C7_Witness ==
    /\ variant = "react"
    /\ Len(invocations) = 2
    /\ Len(before) > 1
    /\ pc = "returned"

\* C8: when the retry fails with a state-merge conflict as the primary
\* invocation did, run_once returns: the final text is the canned apology, the
\* returned conversation ends with an assistant message holding it, the
\* tool-activity list is empty and the error log holds both failures.
C8_CannedApology ==
    [][(variant = "react" /\ pc = "invalid_update" /\ Len(invocations) = 2) =>
          /\ pc' = "returned"
          /\ final_text' = safe_reply
          /\ Last(state') = AIMessage(safe_reply, <<>>)
          /\ tool_summaries' = <<>>
          /\ error_logs' = << "InvalidUpdateError primary invoke",
                              "InvalidUpdateError fallback invoke" >>]_vars

\* A turn that ended in the apology after a handler had run.
C8_Witness ==
    /\ variant = "react"
    /\ pc = "returned"
    /\ Len(error_logs) = 2
    /\ final_text = safe_reply
    /\ Len(invoked) > 0

\* C9: no failure of the graph invocation leaves run_once as an exception.
C9_NeverRaises ==
    variant = "react" => pc # "raised"

\* C10: the conversation a turn returns starts with the conversation held
\* before the turn, in both variants and on every path.
C10_AppendOnly ==
    pc = "returned" => IsPrefix(before, Conversation)

\* The system message a conversation of the running variant is created with.
CreatedWith ==
    IF variant = "single" THEN SystemMessage(SYSTEM_PROMPT) ELSE SystemMessage(system_text)

\* C11: in every state, after any sequence of turns (retry and double-failure
\* paths included), the first message of the conversation is the system
\* message it was created with and no later message is a system message.
C11_SystemMessageFirst ==
    /\ Len(Conversation) >= 1
    /\ Conversation[1] = CreatedWith
    /\ \A k \in 2..Len(Conversation) : Conversation[k].role # "system"

\* A second turn that took the retry path (and returned the retry's result or
\* the apology) on a conversation that already held an earlier turn.
C11_Witness ==
    /\ variant = "react"
    /\ pc = "returned"
    /\ turn = 2
    /\ Len(invocations) = 2
    /\ Len(before) > 1
    /\ Len(state) >= 3

\* Every tool-result message answers a request of an earlier assistant
\* message of the same conversation.
NoOrphans(conv) ==
    \A k \in 1..Len(conv) :
        conv[k].role = "tool" =>
            \E j \in 1..(k - 1) :
                /\ conv[j].role = "assistant"
                /\ conv[k].tool_call_id \in RequestIds(conv[j])

\* C12: in every conversation either variant reaches, also after a retry that
\* discarded the history, each tool-result message's request identity is the
\* identity of a request carried by an earlier assistant message.
C12_NoOrphanToolResults == NoOrphans(Conversation)

\* A second turn's conversation, returned by the retry path after the history
\* was discarded, that holds a tool result.
C12_Witness ==
    /\ variant = "react"
    /\ pc = "returned"
    /\ Len(invocations) = 2
    /\ Len(before) > 1
    /\ \E k \in 1..Len(state) : state[k].role = "tool"

\* The for loop of chat_once was left by an exception of the handler call
\* func(**args) of its i-th request.
HandlerRaised ==
    /\ variant = "single"
    /\ pc = "raised"
    /\ Len(model_calls) = 1
    /\ i <= Len(msg.tool_calls)

\* C13: whatever argument mapping the dispatcher passes, the call of
\* record_customer_interest or record_feedback returns a confirmation string
\* and does not raise.
C13_HandlersNeverRaise ==
    ~ /\ HandlerRaised
      /\ JsonLoads(msg.tool_calls[i].arguments).decodes

\* The identities of the first response's requests, in emission order.
EmittedIds == [k \in 1..Len(msg.tool_calls) |-> msg.tool_calls[k].id]

IsRequestMessage(m) == m.role = "assistant" /\ Len(m.tool_calls) > 0

IsToolMessage(m) == m.role = "tool"

\* What the running chat_once turn has added to the conversation so far.
Added == SubSeq(history, Len(before) + 1, Len(history))

\* The identities the request messages, and the tool messages, of a list
\* carry, in the list's order.
RequestOrder(conv) ==
    LET rs == SelectSeq(conv, IsRequestMessage)
    IN  [k \in 1..Len(rs) |-> rs[k].tool_calls[1].id]

ResultOrder(conv) ==
    LET ts == SelectSeq(conv, IsToolMessage)
    IN  [k \in 1..Len(ts) |-> ts[k].tool_call_id]

\* s is t without some of its elements, order kept (t has no repetition).
IsSubsequence(s, t) ==
    /\ \A k \in 1..Len(s) : \E j \in 1..Len(t) : t[j] = s[k]
    /\ \A a, b \in 1..Len(s) :
          a < b => \E x, y \in 1..Len(t) : x < y /\ t[x] = s[a] /\ t[y] = s[b]

\* C19: chat_once handles the requests of a response in emission order: the
\* handlers run in that order (requests for unknown tools run none), the
\* request messages recorded so far are the first requests in that order, and
\* a returned turn holds the request messages and the tool-result messages
\* each in emission order.
C19_EmissionOrder ==
    variant = "single" =>
        /\ IsSubsequence(invoked, EmittedIds)
        /\ IsPrefix(RequestOrder(Added), EmittedIds)
        /\ IsPrefix(ResultOrder(Added), EmittedIds)
        /\ pc = "returned" =>
              /\ RequestOrder(Added) = EmittedIds
              /\ ResultOrder(Added) = EmittedIds

\* A returned turn with two requests whose handlers both ran.
C19_Witness ==
    /\ variant = "single"
    /\ pc = "returned"
    /\ Len(msg.tool_calls) = 2
    /\ Len(invoked) = 2
    /\ ResultOrder(Added) = << msg.tool_calls[1].id, msg.tool_calls[2].id >>

\* C20: a completed chat_once turn has appended to the conversation, in this
\* order: one user message; one request message per request of the first
\* response; as many tool-result messages; one assistant message without
\* requests whose content is the returned final text.
C20_TurnShape ==
    (variant = "single" /\ pc = "returned") =>
        LET n == Len(msg.tool_calls)
        IN  /\ IsPrefix(before, history)
            /\ Len(Added) = 2 * n + 2
            /\ Added[1].role = "user"
            /\ \A k \in 1..n :
                  /\ Added[1 + k] = AIMessage("", << msg.tool_calls[k] >>)
                  /\ Added[1 + n + k].role = "tool"
                  /\ Added[1 + n + k].tool_call_id = msg.tool_calls[k].id
            /\ Last(history) = AIMessage(final_text, <<>>)

\* A completed turn with two requests, after an earlier completed turn.
C20_Witness ==
    /\ variant = "single"
    /\ pc = "returned"
    /\ turn = 2
    /\ Len(msg.tool_calls) = 2
    /\ Len(before) > 1
    /\ final_text # ""

\* The capability requests the messages of a list carry, in order.
RECURSIVE Requests(_)
Requests(conv) ==
    IF conv = <<>> THEN <<>> ELSE Head(conv).tool_calls \o Requests(Tail(conv))

\* The content of the tool-result message of conv that answers the request
\* identity id, None without one.
Answer(conv, id) ==
    LET ts == { k \in 1..Len(conv) : conv[k].role = "tool" /\ conv[k].tool_call_id = id }
    IN  IF ts = {} THEN None ELSE conv[CHOOSE k \in ts : TRUE].content

\* run_once returned the result of a graph invocation (not the apology).
GraphSucceeded == variant = "react" /\ pc = "returned" /\ Len(error_logs) < 2

\* The messages this turn added: the new user message and what the last
\* graph invocation appended to the list it was given.
TurnMessages == SubSeq(state, Len(Last(invocations)), Len(state))

\* C17: after a run_once turn whose primary invocation succeeded, the k-th
\* tool-activity entry is the k-th request of the turn together with the
\* content of the tool-result message answering that request's identity.
C17_SummariesPairByIdentity ==
    (GraphSucceeded /\ Len(invocations) = 1) =>
        LET reqs == Requests(TurnMessages)
        IN  \A k \in 1..Len(tool_summaries) :
                /\ k <= Len(reqs)
                /\ tool_summaries[k].name = reqs[k].name
                /\ tool_summaries[k].args = reqs[k].arguments
                /\ tool_summaries[k].result = Answer(state, reqs[k].id)

\* C18: after a run_once turn whose graph invocation succeeded, on the
\* primary attempt or on the retry, the tool-activity list has one entry per
\* request carried by the messages added during the turn, in emission order,
\* and no other entry.
C18_SummariesCoverTurn ==
    GraphSucceeded =>
        LET reqs == Requests(TurnMessages)
        IN  /\ Len(tool_summaries) = Len(reqs)
            /\ \A k \in 1..Len(reqs) :
                  /\ tool_summaries[k].name = reqs[k].name
                  /\ tool_summaries[k].args = reqs[k].arguments

\* What the _append_line calls that returned have written to path, in the
\* order they returned.
ExpectedContent(path) ==
    LET F[k \in 0..Len(completed)] ==
            IF k = 0 THEN <<>>
            ELSE IF completed[k].path = path
            THEN F[k - 1] \o WrittenText(completed[k].line)
            ELSE F[k - 1]
    IN  F[Len(completed)]

\* C14: each log holds, in order, exactly the records of the handler
\* invocations on it that returned, one per invocation and repeated when the
\* arguments repeat; and no step of the application changes or removes what
\* a log already holds.
C14_LogsAppendOnly ==
    /\ [](\A path \in DOMAIN files : files[path] = ExpectedContent(path))
    /\ [][\A path \in DOMAIN files : IsPrefix(files[path], files'[path])]_vars

\* Two invocations with identical arguments have returned and the log holds
\* the record twice.
C14_Witness ==
    /\ Len(completed) = 2
    /\ completed[1] = completed[2]
    /\ files[completed[1].path] =
           WrittenText(completed[1].line) \o WrittenText(completed[1].line)

\* The lines of a file: the texts its line breaks end.
RECURSIVE SplitLines(_)
SplitLines(text) ==
    LET breaks == { k \in 1..Len(text) : text[k] = "\n" }
    IN  IF text = <<>> THEN <<>>
        ELSE IF breaks = {} THEN << text >>
        ELSE LET k == CHOOSE b \in breaks : \A c \in breaks : b <= c
             IN  << SubSeq(text, 1, k - 1) >> \o SplitLines(SubSeq(text, k + 1, Len(text)))

\* The records of the invocations on path that returned, in order.
Records(path) ==
    LET on_path == SelectSeq(completed, LAMBDA c : c.path = path)
    IN  [k \in 1..Len(on_path) |-> rstrip(on_path[k].line)]

\* C15: with the sessions' handlers appending side by side, every line of a
\* log file is the complete record of exactly one invocation that returned,
\* and every such invocation has its line.
C15_LinesAreRecords ==
    \A path \in DOMAIN files : SplitLines(files[path]) = Records(path)

\* The lists no session owns: the State component's value and the cached
\* initial message lists.
SharedRefs ==
    ({initial_value} \cup { GRAPH_CACHE[persona] : persona \in PERSONAS }) \ {0}

Loaded == { s \in Sessions : sessions[s].pc # "off" }

\* C16: the State component's value and the cached lists always hold exactly
\* their system message; the sessions' conversations are objects of their
\* own; a session that opens the page, clears the chat or changes the persona
\* holds exactly the system message afterwards; and a step of one session
\* leaves the conversation of every other session as it was.
C16_SessionOwnership ==
    /\ [](/\ heap[initial_value] =
                 IF variant = "single" THEN new_conversation
                 ELSE persona_state("Friendly Advisor")
          /\ \A persona \in PERSONAS :
                 GRAPH_CACHE[persona] # 0 =>
                     heap[GRAPH_CACHE[persona]] = persona_state(persona)
          /\ \A s \in Loaded :
                 /\ sessions[s].ref \notin SharedRefs
                 /\ \A t \in Loaded \ {s} : sessions[t].ref # sessions[s].ref)
    /\ [][\A s \in Sessions :
             /\ (Load(s) \/ Clear(s)) =>
                    heap'[sessions'[s].ref] = heap[initial_value]
             /\ \A pkey \in PERSONAS :
                    PersonaChange(s, pkey) =>
                        heap'[sessions'[s].ref] = persona_state(pkey)
             /\ (s \in Loaded /\ sessions'[s] = sessions[s]) =>
                    heap'[sessions[s].ref] = heap[sessions[s].ref]]_vars

\* The first session has completed a turn with a handler call, and the
\* second, side by side with it, holds exactly the system message.
C16_Witness ==
    /\ variant = "single"
    /\ Loaded = {1, 2}
    /\ sessions[1].pc = "idle"
    /\ \E k \in 1..Len(heap[sessions[1].ref]) : heap[sessions[1].ref][k].role = "tool"
    /\ heap[sessions[2].ref] = new_conversation

\* The response a reason step added carries a capability request.
WithRequests(m) == m.role = "assistant" /\ Len(m.tool_calls) > 0

\* C21: in a graph run of run_once the act step runs only directly after a
\* reason step whose response carries a capability request; an act step
\* that completes is directly followed by a reason step; the run reaches END
\* exactly when a reason step yields a response without requests; handlers
\* run in act steps only, so none runs after the last reason step.
C21_ReasonActRouting ==
    /\ [](variant = "react" =>
            /\ pc = "tools" => WithRequests(Last(messages))
            /\ pc = "end" => /\ Last(messages).role = "assistant"
                             /\ Last(messages).tool_calls = <<>>)
    /\ [][variant = "react" =>
            /\ pc' = "tools" =>
                  /\ pc = "agent"
                  /\ messages' = Append(messages, Last(messages'))
            /\ (pc = "tools" /\ messages' # messages) => pc' = "agent"
            /\ (pc = "agent" /\ Len(messages') = Len(messages) + 1) =>
                  pc' = IF WithRequests(Last(messages')) THEN "tools" ELSE "end"
            /\ pc' = "end" => pc = "agent"
            /\ (pc \notin Resting /\ invoked' # invoked) => pc = "tools"
            /\ pc = "end" => invoked' = invoked]_vars

\* A run reached END after two rounds of reason and act.
C21_Witness ==
    /\ variant = "react"
    /\ pc = "end"
    /\ Len(invocations) = 1
    /\ Len(invoked) >= 1
    /\ Cardinality({ k \in 1..Len(messages) : WithRequests(messages[k]) }) = 2

\* C22: when a chat_once turn aborts with an exception, the caller's
\* conversation is what it was before the turn: no user message and no
\* unanswered capability request has been added.
C22_StateUnchangedOnError ==
    (variant = "single" /\ pc = "raised") => history = before

\* A run_once turn has been entered: the list of the state it was given is
\* bound.
Entered_run_once == variant = "react" /\ names.arg # 0

\* C23: from the call of run_once to its return, on every path, the list of
\* the state the caller passed in holds the messages it held at the call;
\* the conversation of the turn is in the list of the returned state, which
\* is another object.
C23_InputStateUntouched ==
    Entered_run_once =>
        /\ objects[names.arg] = before
        /\ pc = "returned" =>
              /\ names.returned # names.arg
              /\ objects[names.returned] = state
              /\ objects[names.returned] # before

\* A turn on a conversation that already held an earlier turn failed twice
\* and returned the fallback list, to which the apology was appended in
\* place.
C23_Witness ==
    /\ Entered_run_once
    /\ pc = "returned"
    /\ Len(before) > 1
    /\ Len(error_logs) = 2
    /\ objects[names.fallback_messages] = state
    /\ Last(state).content = safe_reply

\* Every handler invocation of the turn is reported: its request is one of
\* the requests of the turn's messages, and the tool-activity entry at that
\* request's place names its capability and arguments.
InvocationsReported ==
    LET reqs == Requests(TurnMessages)
    IN  \A j \in 1..Len(invoked) :
            \E k \in 1..Len(reqs) :
                /\ reqs[k].id = invoked[j]
                /\ k <= Len(tool_summaries)
                /\ tool_summaries[k].name = reqs[k].name
                /\ tool_summaries[k].args = reqs[k].arguments

\* C24 as stated: whatever path a run_once turn took to its return, every
\* handler invocation of the turn is reported in the turn's tool-activity
\* summaries, those of a failed primary graph run included.
C24_AllInvocationsReported ==
    (variant = "react" /\ pc = "returned") => InvocationsReported

\* C24, amended: every handler invocation of a run_once turn whose primary
\* graph run succeeded is reported in the turn's tool-activity summaries;
\* a turn that ends in the canned apology reports no tool activity at all.
C24_PrimaryInvocationsReported ==
    (variant = "react" /\ pc = "returned") =>
        /\ Len(invocations) = 1 => InvocationsReported
        /\ Len(error_logs) = 2 => tool_summaries = <<>>

\* A turn whose primary run succeeded after two handler invocations.
C24_Witness ==
    /\ variant = "react"
    /\ pc = "returned"
    /\ Len(invocations) = 1
    /\ Len(invoked) = 2
    /\ Len(tool_summaries) >= 2

====
